---- MODULE Spec2Model ----
(***************************************************************************)
(* A model of the CW keyer application main.c (YACK based ATTiny85 keyer): *)
(* the outer loop, command mode with its two command tables, the pitch and *)
(* Farnsworth adjustment loops, the callsign trainer, the LFSR generator   *)
(* and the beacon scheduler.  Characters are ASCII codes, machine words    *)
(* are 16 bit wide (arithmetic modulo 2^16), bytes 8 bit.                  *)
(*                                                                         *)
(* The YACK library (yack.h / yack.c) is not part of main.c; its calls are *)
(* modelled by their documented contract: the decoder yackiambic and the   *)
(* control key yackctrlkey are operator inputs of each step.               *)
(***************************************************************************)
EXTENDS Integers, Sequences, FiniteSets, TLC

(***************************************************************************)
(* Bounds of the model                                                     *)
(***************************************************************************)
\* polling iterations (yackbeat ticks) per second: 1000/YACKBEAT on the device
BeatsPerSec == 1
\* command-loop iterations explored beyond one full idle timeout
PollSlack == 2
\* callsigns synthesized per program run
MaxRounds == 2
\* wrong characters keyed per callsign
MaxErrs == 2
\* digits keyed per beacon recording
MaxDigits == 5
\* beacon(PLAY) invocations explored
MaxTicks == 12
\* largest beacon interval found in storage at power-up
MaxStored == 3
\* parameter adjustments made in one run of pitch() or setfarns()
MaxAdjust == 2

(***************************************************************************)
(* Program constants                                                       *)
(***************************************************************************)
TRAINTIMEOUT == 10
PITCHREPEAT == 10
FARNSREPEAT == 10
DEFTIMEOUT == 10
MACTIMEOUT == 5
UNLOADED == 65000
MAXINTERVAL == 9999
CALLLEN == 5
CTRUE == 1
CFALSE == 0
WORD == 65536
LFSRSEED == 44257
LFSRTAPS == 46080
\* lfsr(n): "a number between 2 and 255"
MINN == 2
MAXN == 255
\* lfsr(255) of the command loop
SEEDBOUND == 255

YACKSECS(n) == n * BeatsPerSec

PollBudget == YACKSECS(DEFTIMEOUT) + PollSlack

(***************************************************************************)
(* Characters                                                              *)
(***************************************************************************)
UpperCase ==
  << "A", "B", "C", "D", "E", "F", "G", "H", "I", "J", "K", "L", "M",
     "N", "O", "P", "Q", "R", "S", "T", "U", "V", "W", "X", "Y", "Z" >>

Numerals == << "0", "1", "2", "3", "4", "5", "6", "7", "8", "9" >>

\* ASCII code of a character literal of the source
Ord(s) ==
  IF \E k \in 1..26 : UpperCase[k] = s
    THEN 64 + (CHOOSE k \in 1..26 : UpperCase[k] = s)
    ELSE IF \E k \in 1..10 : Numerals[k] = s
      THEN 47 + (CHOOSE k \in 1..10 : Numerals[k] = s)
      ELSE 63

chR == Ord("R")
chA == Ord("A")
chB == Ord("B")
chL == Ord("L")
chD == Ord("D")
chX == Ord("X")
chS == Ord("S")
chK == Ord("K")
chZ == Ord("Z")
chF == Ord("F")
chN == Ord("N")
chV == Ord("V")
chP == Ord("P")
chU == Ord("U")
chC == Ord("C")
chE == Ord("E")
chI == Ord("I")
chT == Ord("T")
chM == Ord("M")
chW == Ord("W")
chQ == Ord("Q")
ch0 == Ord("0")
ch1 == Ord("1")
ch2 == Ord("2")
ch3 == Ord("3")
ch4 == Ord("4")
ch5 == Ord("5")
ch7 == Ord("7")
ch9 == Ord("9")
chQuery == Ord("?")

NUL == 0

\* first switch of commandmode: the lockable configuration commands
LockableChars ==
  { chR, chA, chB, chL, chD, chX, chS,
    chK, chZ, chF, ch1, ch2, ch3, ch4,
    chN }

\* second switch: commands that end with c = TRUE
AckChars == { chV, chP, chU, chC, ch0, chW }

\* second switch: macro playback, ending with c = FALSE
PlaybackChars == { chE, chI, chT, chM }

AnytimeChars == AckChars \cup PlaybackChars

\* characters the decoder can deliver that are in neither table
OtherChars == { chQ, ch5, chQuery }

CommandChars == LockableChars \cup AnytimeChars \cup OtherChars

(***************************************************************************)
(* lfsr(): 16 bit Galois LFSR, taps 0xB400                                 *)
(***************************************************************************)
\* ^ and & bit by bit
RECURSIVE XorBits(_, _)
XorBits(a, b) ==
  IF a = 0 THEN b
  ELSE IF b = 0 THEN a
  ELSE (((a % 2) + (b % 2)) % 2) + (2 * XorBits(a \div 2, b \div 2))

RECURSIVE AndBits(_, _)
AndBits(a, b) ==
  IF a = 0 \/ b = 0 THEN 0
  ELSE ((a % 2) * (b % 2)) + (2 * AndBits(a \div 2, b \div 2))

\* the same two operators on four bits at a time, tabulated
NibXor == [ a \in 0..15 |-> [ b \in 0..15 |-> XorBits(a, b) ] ]
NibAnd == [ a \in 0..15 |-> [ b \in 0..15 |-> AndBits(a, b) ] ]

RECURSIVE BitXor(_, _)
BitXor(a, b) ==
  IF a = 0 THEN b
  ELSE IF b = 0 THEN a
  ELSE NibXor[a % 16][b % 16] + (16 * BitXor(a \div 16, b \div 16))

RECURSIVE BitAnd(_, _)
BitAnd(a, b) ==
  IF a = 0 \/ b = 0 THEN 0
  ELSE NibAnd[a % 16][b % 16] + (16 * BitAnd(a \div 16, b \div 16))

\* -(x) on a 16 bit unsigned
Neg16(x) == (WORD - x) % WORD

\* (lfsr >> 1) ^ (-(lfsr & 1u) & 0xB400u), the operands computed first
LfsrShift(v) ==
  CHOOSE r \in { BitXor(h, m) :
                   h \in { v \div 2 },
                   m \in { BitAnd(n, LFSRTAPS) : n \in { Neg16(v % 2) } } } : TRUE

\* one step of the register from state s
LfsrStep(s) == CHOOSE r \in { LfsrShift(v) : v \in { s } } : TRUE

\* mutant: n is subtracted once at most
CheapModOnce(r, n) == IF r >= n THEN r - n ELSE r

\* while (random >= n) random -= n
RECURSIVE CheapMod(_, _)
CheapMod(r, n) == IF r >= n THEN CheapMod(r - n, n) ELSE r

\* value returned by lfsr(n) when the register already holds the new state s
LfsrValue(s, n) == CheapMod(s \div 256, n)

\* mutant: the digit is the second element
RndCallCharDigitSecond(k, s) ==
  IF k = 2 THEN LfsrValue(s, 10) + ch0 ELSE LfsrValue(s, 26) + chA

\* rndcall(): the callsign made from register state s (five steps)
RndCallChar(k, s) ==
  IF k = 3 THEN LfsrValue(s, 10) + ch0 ELSE LfsrValue(s, 26) + chA

RECURSIVE LfsrAfter(_, _)
LfsrAfter(s, k) == IF k = 0 THEN s ELSE LfsrAfter(LfsrStep(s), k - 1)

\* the k register states that follow s, each computed once
RECURSIVE LfsrRun(_, _)
LfsrRun(s, k) ==
  IF k = 0 THEN << >>
  ELSE CHOOSE r \in { << n >> \o LfsrRun(n, k - 1) : n \in { LfsrStep(s) } } : TRUE

\* for (i=0;i<5;i++) call[i] = lfsr(..) + ..: the buffer made from the
\* register states st of the five calls
CallOf(st) == [ k \in 1..CALLLEN |-> RndCallChar(k, st[k]) ]

RndCall(s) == CallOf(LfsrRun(s, CALLLEN))

NoCall == [ k \in 1..CALLLEN |-> NUL ]

\* the record of the lfsr calls of one step: the bound of the last call,
\* the register before it and the value returned; the register before the
\* first call and the number of calls
DrawnTo(s, s1, n) ==
  [ n |-> n, s |-> s, v |-> LfsrValue(s1, n), s0 |-> s, k |-> 1 ]

Drawn(s, n) == DrawnTo(s, LfsrStep(s), n)

NoDraw == [ n |-> 0, s |-> 0, v |-> 0, s0 |-> 0, k |-> 0 ]

\* rndcall() started with the register at s, after k0 earlier calls that
\* started at s0: its last call is lfsr(26)
LastOfRun(st, s0, k0) ==
  [ n |-> 26, s |-> st[CALLLEN - 1], v |-> LfsrValue(st[CALLLEN], 26),
    s0 |-> s0, k |-> k0 + CALLLEN ]

LastOfCall(s, s0, k0) == LastOfRun(LfsrRun(s, CALLLEN), s0, k0)

(***************************************************************************)
(* State                                                                   *)
(***************************************************************************)
VARIABLES
  pc,        \* where control is: "main", "cmd", "pitch", "farns", "present", "await", "brec"
  inhibit,   \* yackinhibit state: TRUE = sidetone only, transmitter not keyed
  timer,     \* commandmode: exit timer
  lock,      \* CONFLOCK flag
  dirty,     \* a configuration call was made since the last yacksave
  adj,       \* yackpitch / yackspeed calls of the last adjustment cycle
  lfsr,      \* lfsr(): the static register
  polls,     \* command-loop iterations run since power-up
  call,      \* cstrain: callsign buffer
  idx,       \* cstrain: i, characters matched so far
  pn,        \* cstrain: n, presentation counter
  ttimer,    \* cstrain: timer
  rounds,    \* callsigns synthesized since power-up
  terrs,     \* yackerror calls of cstrain for the current callsign
  tdone,     \* yackerror calls the callsign completed last had taken (-1: none yet)
  ptimer,    \* pitch: timer
  ftimer,    \* setfarns: timer
  adjn,      \* yackpitch / yackspeed calls of the adjustment loop run last
  interval,  \* beacon: static interval
  btimer,    \* beacon: static timer
  stored,    \* EEPROM user word 1 (the persisted beacon interval)
  digits,    \* digit characters decoded in the current beacon recording
  silent,    \* capture-loop bodies since the last decoded character
  prior,     \* persisted and in-memory interval when the last recording began
  ticks,     \* counting beacon(PLAY) invocations since power-up
  loaded,    \* value last read from storage into interval, -1 once a recording replaced it
  expiries,  \* expiries of the one-second counter since that read
  bplay,     \* the last beacon(PLAY) invocation played the message
  firedAt,   \* the expiry count at which the message was last played
  firedFor,  \* the loaded interval that playback belonged to
  loop,      \* the loop whose iteration the last step ran
  evt,       \* what that iteration did
  why,       \* why a loop was left: "key", "timeout", "none"
  lastc,     \* character decoded by yackiambic in that iteration (NUL: none)
  lockAt,    \* CONFLOCK as sampled by the last command-loop iteration
  act,       \* command executed by the last command-loop iteration
  ack,       \* txok tones sounded by the current command-loop iteration
  err,       \* yackerror calls of commandmode and beacon in that iteration
  save,      \* yacksave calls of commandmode in that iteration
  idle,      \* command-loop polls without a character since the exit timer was armed
  quiet,     \* iterations of the current sub-loop without input since its countdown was armed
  subc,      \* character decoded by the last iteration of cstrain or beacon (NUL: none)
  armed,     \* value the commandmode exit timer was last armed to
  calls,     \* engine calls of the last commandmode step, in program order
  keychk,    \* yackctrlkey calls made by the last loop iteration
  keyhit,    \* the control key was pressed during the last loop iteration
  cklatch,   \* the control-key latch of the engine
  rnd,       \* the last lfsr(n) call: bound, register before, value returned
  fires      \* beacon(PLAY): the invocations, by number, that played the message

cfgVars == << lock, dirty, adj >>
trainVars == << call, idx, pn, ttimer, rounds, terrs, tdone >>
adjVars == << ptimer, ftimer, adjn >>
beaconVars == << interval, btimer, stored, digits, silent, prior >>
playVars == << ticks, loaded, expiries, bplay, firedAt, firedFor, fires >>
cmdObs == << lastc, lockAt, act, armed, calls >>

vars ==
  << pc, inhibit, timer, lock, dirty, adj, lfsr,
     polls, call, idx, pn, ttimer, rounds, terrs, tdone, ptimer, ftimer, adjn,
     interval,
     btimer, stored, digits, silent, prior, ticks, loaded, expiries, bplay, firedAt,
     firedFor, loop, evt, why, lastc, lockAt, act, ack, err, save, idle,
     quiet, subc, armed, calls, keychk, keyhit, cklatch, rnd, fires >>

\* the state after yackinit() and the greeting of main(); the EEPROM holds
\* the lock flag and the beacon interval of earlier sessions
BootFrom(locks, intervals, seeds) ==
  /\ pc = "main"
  /\ inhibit = FALSE
  /\ timer = 0
  /\ lock \in locks
  /\ dirty = FALSE
  /\ adj = "none"
  /\ lfsr \in seeds
  /\ rnd = NoDraw
  /\ fires = << >>
  /\ polls = 0
  /\ call = NoCall
  /\ idx = 0
  /\ pn = 0
  /\ ttimer = 0
  /\ rounds = 0
  /\ terrs = 0
  /\ tdone = -1
  /\ ptimer = 0
  /\ ftimer = 0
  /\ adjn = 0
  /\ interval = UNLOADED
  /\ btimer = 0
  /\ stored \in intervals
  /\ digits = << >>
  /\ silent = 0
  /\ prior = << 0, 0 >>
  /\ ticks = 0
  /\ loaded = -1
  /\ expiries = 0
  /\ bplay = FALSE
  /\ firedAt = 0
  /\ firedFor = 0
  /\ loop = "boot"
  /\ evt = "boot"
  /\ why = "none"
  /\ lastc = NUL
  /\ lockAt = FALSE
  /\ act = "none"
  /\ ack = 0
  /\ err = 0
  /\ save = 0
  /\ idle = 0
  /\ quiet = 0
  /\ subc = NUL
  /\ armed = 0
  /\ calls = << >>
  /\ keychk = 0
  /\ keyhit = FALSE
  /\ cklatch = FALSE

Boot(locks, intervals) == BootFrom(locks, intervals, { LFSRSEED })

(***************************************************************************)
(* Keying inhibit: yackinhibit(mode) around commandmode                    *)
(***************************************************************************)
\* yackinhibit(ON); yackchar('?')
EntryCalls == << "inhibit(ON)", "greeting" >>

\* yackstring(prgx); yackinhibit(OFF)
ExitCalls == << "prgx", "inhibit(OFF)" >>

\* the inhibit state after a sequence of calls
RECURSIVE InhibitAfter(_, _)
InhibitAfter(cs, inh) ==
  IF cs = << >> THEN inh
  ELSE InhibitAfter(Tail(cs),
         IF Head(cs) = "inhibit(ON)" THEN TRUE
         ELSE IF Head(cs) = "inhibit(OFF)" THEN FALSE
         ELSE inh)

(***************************************************************************)
(* The control key: yackctrlkey(mode) of the engine                        *)
(***************************************************************************)
\* the result of yackctrlkey: a press sets the latch, the latch is returned
CtrlKey(latch, pressed) == latch \/ pressed

\* the latch after yackctrlkey(mode): mode TRUE consumes it, FALSE peeks
LatchAfter(latch, pressed, mode) ==
  IF mode = CTRUE THEN FALSE ELSE CtrlKey(latch, pressed)

\* the mode argument at each call site
MainKeyMode == CTRUE
CmdKeyMode == CTRUE
\* mutant: pitch() peeks at the latch and leaves it set
PitchKeyModePeek == CFALSE

PitchKeyMode == CTRUE
FarnsKeyMode == CTRUE
PresentKeyMode == CTRUE
AwaitLoopMode == CFALSE
AwaitExitMode == CTRUE

(***************************************************************************)
(* beacon(PLAY)                                                            *)
(***************************************************************************)
\* if (interval == 65000) interval = yackuser(READ, 1, 0)
LazyLoad(iv, st) == IF iv = UNLOADED THEN st ELSE iv

\* if (timer) timer--; else ...
SecondExpired(t) == t = 0

\* mutant: the test reads the interval before the decrement
PlayDuePostfix(iv) == iv = 0

\* (--interval) == 0 on a 16 bit word
PlayDue(iv) == (iv + WORD - 1) % WORD = 0

BeaconPlay ==
  LET fresh == interval = UNLOADED
      iv == LazyLoad(interval, stored)
      ld == IF fresh THEN iv ELSE loaded
      ex == IF fresh THEN 0 ELSE expiries
  IN  IF iv = 0
        THEN /\ interval' = iv
             /\ loaded' = ld
             /\ expiries' = ex
             /\ bplay' = FALSE
             /\ UNCHANGED << btimer, ticks, firedAt, firedFor, fires >>
        ELSE /\ ticks < MaxTicks
             /\ ticks' = ticks + 1
             /\ IF ~SecondExpired(btimer)
                  THEN /\ btimer' = btimer - 1
                       /\ interval' = iv
                       /\ loaded' = ld
                       /\ expiries' = ex
                       /\ bplay' = FALSE
                       /\ UNCHANGED << firedAt, firedFor, fires >>
                  ELSE /\ btimer' = YACKSECS(1)
                       /\ IF PlayDue(iv)
                            THEN /\ interval' = stored
                                 /\ loaded' = stored
                                 /\ expiries' = 0
                                 /\ bplay' = TRUE
                                 /\ firedAt' = ex + 1
                                 /\ firedFor' = ld
                                 /\ fires' = Append(fires, ticks + 1)
                            ELSE /\ interval' = (iv + WORD - 1) % WORD
                                 /\ loaded' = ld
                                 /\ expiries' = ex + 1
                                 /\ bplay' = FALSE
                                 /\ UNCHANGED << firedAt, firedFor, fires >>

(***************************************************************************)
(* main(): one iteration of the endless core loop                          *)
(***************************************************************************)
MainLoop(key) ==
  /\ pc = "main"
  /\ loop' = "main"
  /\ keychk' = 1
  /\ keyhit' = key
  /\ cklatch' = LatchAfter(cklatch, key, MainKeyMode)
  /\ why' = "none"
  /\ lastc' = NUL
  /\ act' = "none"
  /\ ack' = 0
  /\ err' = 0
  /\ save' = 0
  /\ idle' = 0
  /\ quiet' = 0
  /\ subc' = NUL
  /\ IF CtrlKey(cklatch, key)
       THEN \* commandmode() is entered: inhibit, greeting, timer armed
            /\ pc' = "cmd"
            /\ inhibit' = InhibitAfter(EntryCalls, inhibit)
            /\ calls' = EntryCalls
            /\ timer' = YACKSECS(DEFTIMEOUT)
            /\ armed' = YACKSECS(DEFTIMEOUT)
            /\ lockAt' = lock
            /\ evt' = "enter"
            /\ UNCHANGED << interval, btimer >>
            /\ UNCHANGED playVars
       ELSE /\ BeaconPlay
            /\ armed' = 0
            /\ calls' = << >>
            /\ lockAt' = FALSE
            /\ evt' = "tick"
            /\ UNCHANGED << pc, inhibit, timer >>
  /\ UNCHANGED << stored, digits, silent, prior, lfsr, polls, rnd >>
  /\ UNCHANGED cfgVars
  /\ UNCHANGED trainVars
  /\ UNCHANGED adjVars

(***************************************************************************)
(* commandmode()                                                           *)
(***************************************************************************)
\* mutant: the countdown test lets the body run once more at zero
LoopGoesOnAtZero(key, t) == ~key /\ t >= 0

\* while ((yackctrlkey(TRUE)==0) && (timer-- > 0))
LoopGoesOn(key, t) == ~key /\ t > 0

\* if (c) timer = YACKSECS(DEFTIMEOUT)
Rearm(c, t) == IF c # NUL THEN YACKSECS(DEFTIMEOUT) ELSE t

\* mutant: the lock flag is not tested
LockableConsultedAlways(lk) == TRUE

\* if (!yackflag(CONFLOCK))
LockableConsulted(lk) == ~lk

\* mutant: the beacon command is also in the list that is never locked
LockableMatchBeaconOpen(c, lk) ==
  IF (~lk \/ c = chN) /\ c \in LockableChars THEN c ELSE NUL

\* the case of the first switch that c selects (NUL: none)
LockableMatch(c, lk) ==
  IF LockableConsulted(lk) /\ c \in LockableChars THEN c ELSE NUL

\* c after the first switch: every case ends with c = TRUE
AfterLockable(c, lk) == IF LockableMatch(c, lk) # NUL THEN CTRUE ELSE c

\* the case of the second switch that c selects (NUL: none)
AnytimeMatch(c) == IF c \in AnytimeChars THEN c ELSE NUL

\* c after the second switch: TRUE, or FALSE for the playback cases
AfterAnytime(c) ==
  IF c \in AckChars THEN CTRUE
  ELSE IF c \in PlaybackChars THEN CFALSE
  ELSE c

\* mutant: the test reads if (c) instead of if (c == TRUE)
OutcomeTruthy(c) == IF c # CFALSE THEN "ack" ELSE "none"

\* if (c == TRUE) {yacksave; yackdelay; txok} else if (c) yackerror()
Outcome(c) ==
  IF c = CTRUE THEN "ack" ELSE IF c # CFALSE THEN "error" ELSE "none"

\* what follows the return of a sub-function called from a case: the case
\* ends with c = TRUE and the tail of the loop body runs
ReturnOutcome(c, lk) == Outcome(AfterAnytime(AfterLockable(c, lk)))

\* mutant: the playback cases leave the timer as it is
TimerAfterIdle(m, t) == t

\* timer = YACKSECS(MACTIMEOUT) in the playback cases
TimerAfter(m, t) == IF m \in PlaybackChars THEN YACKSECS(MACTIMEOUT) ELSE t

\* the sub-function a case calls that runs a polling loop of its own
SubLoop(m) ==
  CASE m = chZ -> "farns"
    [] m = chN -> "brec"
    [] m = chP -> "pitch"
    [] m = chC -> "present"
    [] OTHER -> "cmd"

ActionName(m) ==
  CASE m = chR -> "yackreset"
    [] m = chA -> "IAMBICA"
    [] m = chB -> "IAMBICB"
    [] m = chL -> "ULTIMATIC"
    [] m = chD -> "DAHPRIO"
    [] m = chX -> "PDLSWAP"
    [] m = chS -> "SIDETONE"
    [] m = chK -> "TXKEY"
    [] m = chZ -> "setfarns"
    [] m = chF -> "TXINV"
    [] m = ch1 -> "record1"
    [] m = ch2 -> "record2"
    [] m = ch3 -> "record3"
    [] m = ch4 -> "record4"
    [] m = chN -> "beacon"
    [] m = chV -> "version"
    [] m = chP -> "pitch"
    [] m = chU -> "tune"
    [] m = chC -> "cstrain"
    [] m = ch0 -> "CONFLOCK"
    [] m = chE -> "play1"
    [] m = chI -> "play2"
    [] m = chT -> "play3"
    [] m = chM -> "play4"
    [] m = chW -> "wpm"
    [] OTHER -> "none"

\* the cases that key the transmitter
KeyingChars == PlaybackChars \cup { chU }

\* mutant: keying is not inhibited again after the transmission
CaseCallsOpen(m) ==
  IF m = NUL THEN << >>
  ELSE IF m \in KeyingChars THEN << "inhibit(OFF)", ActionName(m) >>
  ELSE << ActionName(m) >>

\* the calls of a case: tune and playback are bracketed by
\* yackinhibit(OFF) and yackinhibit(ON)
CaseCalls(m) ==
  IF m = NUL THEN << >>
  ELSE IF m \in KeyingChars
    THEN << "inhibit(OFF)", ActionName(m), "inhibit(ON)" >>
  ELSE << ActionName(m) >>

\* mutant: the acknowledgement is sounded before the save
AckCallsToneFirst == << "txok", "yackdelay", "yacksave" >>

\* yacksave(); yackdelay(DAHLEN * 3); yackstring(txok)
AckCalls == << "yacksave", "yackdelay", "txok" >>

\* the tail of the loop body
TailCalls(out) ==
  IF out = "ack" THEN AckCalls
  ELSE IF out = "error" THEN << "yackerror" >>
  ELSE << >>

LockableActions ==
  { "yackreset", "IAMBICA", "IAMBICB", "ULTIMATIC", "DAHPRIO", "PDLSWAP",
    "SIDETONE", "TXKEY", "setfarns", "TXINV", "record1", "record2",
    "record3", "record4", "beacon" }

\* yacktoggle(CONFLOCK), yackreset()
LockAfter(m, lk) ==
  IF m = ch0 THEN ~lk ELSE IF m = chR THEN FALSE ELSE lk

\* the cases that change the persisted configuration
Mutates(m) ==
  m \in { chR, chA, chB, chL, chD, chX,
          chS, chK, chF, ch0 }

\* the loop is left: sign-off, keying restored, return to main(), which
\* goes on with yackbeat(); beacon(PLAY); yackiambic(OFF)
CmdExit(key) ==
  /\ pc' = "main"
  /\ inhibit' = InhibitAfter(ExitCalls, inhibit)
  /\ calls' = ExitCalls
  /\ timer' = 0
  /\ evt' = "signoff"
  /\ why' = IF key THEN "key" ELSE "timeout"
  /\ lastc' = NUL
  /\ act' = "none"
  /\ ack' = 0
  /\ err' = 0
  /\ save' = 0
  /\ BeaconPlay
  /\ idle' = IF key THEN 0 ELSE idle
  /\ armed' = IF key THEN 0 ELSE armed
  /\ UNCHANGED << lockAt, stored, digits, silent, prior, lfsr, polls, quiet, subc, rnd >>
  /\ UNCHANGED cfgVars
  /\ UNCHANGED trainVars
  /\ UNCHANGED adjVars

\* one pass through the loop body with the decoded character ch
CmdBody(ch) ==
  LET t1 == timer - 1
      t2 == Rearm(ch, t1)
      s1 == LfsrStep(lfsr)
      m1 == LockableMatch(ch, lock)
      c1 == AfterLockable(ch, lock)
      m2 == AnytimeMatch(c1)
      c2 == AfterAnytime(c1)
      m  == IF m1 # NUL THEN m1 ELSE m2
      sub == SubLoop(m)
      out == Outcome(c2)
      cs == CaseCalls(m) \o (IF sub = "cmd" THEN TailCalls(out) ELSE << >>)
  IN  /\ polls < PollBudget
      /\ polls' = polls + 1
      /\ lastc' = ch
      /\ lockAt' = lock
      /\ act' = ActionName(m)
      /\ timer' = TimerAfter(m, t2)
      /\ armed' = IF ch = NUL THEN armed ELSE TimerAfter(m, t2)
      /\ idle' = IF ch = NUL THEN idle + 1 ELSE 0
      /\ quiet' = 0
      /\ subc' = NUL
      /\ lock' = LockAfter(m, lock)
      /\ adj' = "none"
      /\ inhibit' = InhibitAfter(cs, inhibit)
      /\ calls' = cs
      /\ why' = "none"
      /\ pc' = sub
      /\ UNCHANGED << stored, ticks, bplay, firedAt, firedFor, fires >>
      /\ IF sub = "cmd"
           THEN /\ evt' = "poll"
                /\ ack' = IF out = "ack" THEN 1 ELSE 0
                /\ save' = IF out = "ack" THEN 1 ELSE 0
                /\ err' = IF out = "error" THEN 1 ELSE 0
                /\ dirty' = IF out = "ack" THEN FALSE ELSE (dirty \/ Mutates(m))
           ELSE /\ evt' = "call"
                /\ ack' = 0
                /\ save' = 0
                /\ err' = 0
                /\ dirty' = dirty
      /\ IF sub = "present"
           THEN \* cstrain(): rndcall(call); i = 0
                /\ rounds < MaxRounds
                /\ rounds' = rounds + 1
                /\ call' = RndCall(s1)
                /\ lfsr' = LfsrAfter(s1, CALLLEN)
                /\ rnd' = LastOfCall(s1, lfsr, 1)
                /\ idx' = 0
                /\ pn' = 0
                /\ terrs' = 0
                /\ tdone' = -1
                /\ ttimer' = 0
           ELSE /\ lfsr' = s1
                /\ rnd' = DrawnTo(lfsr, s1, SEEDBOUND)
                /\ UNCHANGED trainVars
      /\ ptimer' = IF sub = "pitch" THEN PITCHREPEAT ELSE ptimer
      /\ ftimer' = IF sub = "farns" THEN 0 ELSE ftimer
      /\ adjn' = IF ch = NUL THEN adjn ELSE 0
      /\ IF sub = "brec"
           THEN \* beacon(RECORD): interval = 0; timer armed; yackchar('N')
                /\ interval' = 0
                /\ btimer' = YACKSECS(DEFTIMEOUT)
                /\ digits' = << >>
                /\ silent' = 0
                /\ prior' = << stored, LazyLoad(interval, stored) >>
                /\ loaded' = -1
                /\ expiries' = 0
           ELSE UNCHANGED << interval, btimer, digits, silent, prior, loaded, expiries >>

CmdPoll(key, ch) ==
  /\ pc = "cmd"
  /\ loop' = "cmd"
  /\ keychk' = 1
  /\ keyhit' = key
  /\ cklatch' = LatchAfter(cklatch, key, CmdKeyMode)
  /\ IF LoopGoesOn(CtrlKey(cklatch, key), timer)
       THEN CmdBody(ch)
       ELSE CmdExit(CtrlKey(cklatch, key))

\* a sub-function returns into the command loop, whose case ends with
\* c = TRUE: yacksave(); yackdelay(DAHLEN * 3); yackstring(txok)
ReturnToCommand(reason) ==
  /\ pc' = "cmd"
  /\ evt' = "return"
  /\ why' = reason
  /\ dirty' = IF ReturnOutcome(lastc, lockAt) = "ack" THEN FALSE ELSE dirty
  /\ save' = IF ReturnOutcome(lastc, lockAt) = "ack" THEN 1 ELSE 0
  /\ ack' = IF ReturnOutcome(lastc, lockAt) = "ack" THEN 1 ELSE 0
  /\ calls' = TailCalls(ReturnOutcome(lastc, lockAt))
  /\ UNCHANGED << inhibit, timer, lfsr, polls, stored, idle >>
  /\ UNCHANGED << lastc, lockAt, act, armed >>
  /\ UNCHANGED playVars

StayInLoop ==
  /\ pc' = pc
  /\ why' = "none"
  /\ UNCHANGED << inhibit, timer, polls, ack, err, save, idle >>
  /\ UNCHANGED cmdObs

(***************************************************************************)
(* pitch() and setfarns()                                                  *)
(***************************************************************************)
\* mutant: a contact does not restart the count
PitchTimerRunsOn(t, dit, dah) == t

\* pitch(): timer after the two paddle tests of one cycle
PitchTimer(t, dit, dah) == IF dit \/ dah THEN PITCHREPEAT ELSE t

\* yackpitch(DOWN) on DIT, then yackpitch(UP) on DAH
PitchCalls(dit, dah) ==
  IF dit /\ dah THEN "down,up"
  ELSE IF dit THEN "down" ELSE IF dah THEN "up" ELSE "none"

\* the number of yackpitch calls of one cycle
PitchCount(dit, dah) == (IF dit THEN 1 ELSE 0) + (IF dah THEN 1 ELSE 0)

PitchCycle(key, dit, dah) ==
  LET t1 == ptimer - 1
      t2 == PitchTimer(t1, dit, dah)
  IN  /\ pc = "pitch"
      /\ loop' = "pitch"
      /\ keychk' = 1
      /\ keyhit' = key
      /\ cklatch' = LatchAfter(cklatch, key, PitchKeyMode)
      /\ subc' = NUL
      /\ UNCHANGED << lock, ftimer, err, rnd >>
      /\ UNCHANGED trainVars
      /\ UNCHANGED beaconVars
      /\ IF CtrlKey(cklatch, key)
           THEN /\ ReturnToCommand("key")
                /\ ptimer' = 0
                /\ quiet' = 0
                /\ adj' = "none"
                /\ adjn' = adjn
           ELSE /\ adj' = PitchCalls(dit, dah)
                /\ adjn + PitchCount(dit, dah) <= MaxAdjust
                /\ adjn' = adjn + PitchCount(dit, dah)
                /\ IF t2 = 0
                     THEN /\ ReturnToCommand("timeout")
                          /\ ptimer' = 0
                          /\ quiet' = quiet + 1
                     ELSE /\ StayInLoop
                          /\ ptimer' = t2
                          /\ evt' = "cycle"
                          /\ dirty' = (dirty \/ dit \/ dah)
                          /\ quiet' = IF dit \/ dah THEN 0 ELSE quiet + 1
                          /\ UNCHANGED << lfsr, stored >>
                          /\ UNCHANGED playVars

\* setfarns(): only one of the two paddle tests acts (else if)
FarnsCalls(dit, dah) == IF dit THEN "down" ELSE IF dah THEN "up" ELSE "none"

\* mutant: the count starts again in every cycle
FarnsTimerStuck(t, dit, dah) == 0

\* setfarns(): timer after the paddle tests of one cycle
FarnsTimer(t, dit, dah) == IF dit \/ dah THEN 0 ELSE t

\* the number of yackspeed calls of one cycle
FarnsCount(dit, dah) == IF dit \/ dah THEN 1 ELSE 0

FarnsCycle(key, dit, dah) ==
  LET t1 == ftimer + 1
      t2 == FarnsTimer(t1, dit, dah)
  IN  /\ pc = "farns"
      /\ loop' = "farns"
      /\ keychk' = 1
      /\ keyhit' = key
      /\ cklatch' = LatchAfter(cklatch, key, FarnsKeyMode)
      /\ subc' = NUL
      /\ UNCHANGED << lock, ptimer, err, rnd >>
      /\ UNCHANGED trainVars
      /\ UNCHANGED beaconVars
      /\ IF CtrlKey(cklatch, key)
           THEN /\ ReturnToCommand("key")
                /\ ftimer' = 0
                /\ quiet' = 0
                /\ adj' = "none"
                /\ adjn' = adjn
           ELSE /\ adj' = FarnsCalls(dit, dah)
                /\ adjn + FarnsCount(dit, dah) <= MaxAdjust
                /\ adjn' = adjn + FarnsCount(dit, dah)
                /\ IF t2 = FARNSREPEAT
                     THEN /\ ReturnToCommand("timeout")
                          /\ ftimer' = 0
                          /\ quiet' = quiet + 1
                     ELSE /\ StayInLoop
                          /\ ftimer' = t2
                          /\ evt' = "cycle"
                          /\ dirty' = (dirty \/ dit \/ dah)
                          /\ quiet' = IF dit \/ dah THEN 0 ELSE quiet + 1
                          /\ UNCHANGED << lfsr, stored >>
                          /\ UNCHANGED playVars

(***************************************************************************)
(* cstrain()                                                               *)
(***************************************************************************)
\* locals of cstrain are dead once it has returned
TrainerReturns(reason) ==
  /\ ReturnToCommand(reason)
  /\ call' = NoCall
  /\ idx' = 0
  /\ pn' = 0
  /\ ttimer' = 0
  /\ terrs' = 0
  /\ tdone' = -1
  /\ rounds' = rounds

\* for (n=0;n<5;n++) { yackchar(call[n]); yackfarns(); if (yackctrlkey(TRUE)) return; }
TrainPresent(key) ==
  /\ pc = "present"
  /\ loop' = "present"
  /\ keychk' = 1
  /\ keyhit' = key
  /\ cklatch' = LatchAfter(cklatch, key, PresentKeyMode)
  /\ subc' = NUL
  /\ quiet' = 0
  /\ UNCHANGED << lock, adj, err, rnd >>
  /\ UNCHANGED adjVars
  /\ UNCHANGED beaconVars
  /\ IF CtrlKey(cklatch, key)
       THEN TrainerReturns("key")
       ELSE /\ pn' = pn + 1
            /\ evt' = "played"
            /\ why' = "none"
            /\ pc' = IF pn + 1 = CALLLEN THEN "await" ELSE "present"
            /\ ttimer' = IF pn + 1 = CALLLEN THEN YACKSECS(TRAINTIMEOUT) ELSE ttimer
            /\ UNCHANGED << call, idx, rounds, terrs, tdone, dirty, lfsr >>
            /\ UNCHANGED << inhibit, timer, polls, ack, save, stored, idle >>
            /\ UNCHANGED cmdObs
            /\ UNCHANGED playVars

\* mutant: the loop condition does not test the timer
AwaitGoesOnUntimed(c, t, key) == c = NUL /\ ~key

\* do { c = yackiambic(OFF); yackbeat(); timer--; }
\* while ((!c) && timer && !(yackctrlkey(FALSE)))
AwaitGoesOn(c, t, key) == c = NUL /\ t # 0 /\ ~key

\* if (timer == 0 || yackctrlkey(TRUE)) return
AwaitReturns(t, key) == t = 0 \/ key

\* mutant: the character is compared with the first one of the callsign
RightCharFirst(cs, i, c) == cs[1] = c

\* if (call[i] == c)
RightChar(cs, i, c) == cs[i + 1] = c

\* yackctrlkey calls of one iteration: the peek of the loop condition is
\* reached when no character came and the timer runs, the consuming call
\* after the loop when the timer has not run out
\* mutant: one yackctrlkey call in every iteration
AwaitKeyCallsOnce(c, t, key) == 1

\* yackctrlkey calls of one iteration: the loop condition short-circuits
AwaitKeyCalls(c, t, key) ==
  (IF c = NUL /\ t # 0 THEN 1 ELSE 0)
    + (IF ~AwaitGoesOn(c, t, key) /\ t # 0 THEN 1 ELSE 0)

\* the latch after the loop condition: yackctrlkey(FALSE) is reached only
\* when no character came and the timer runs
AwaitLatchInLoop(c, t, latch, key) ==
  IF c = NUL /\ t # 0 THEN LatchAfter(latch, key, AwaitLoopMode) ELSE latch

\* the latch after if (timer == 0 || yackctrlkey(TRUE)): the call is reached
\* only when the loop has ended with the timer not at zero
AwaitLatchAtExit(c, t, latch, k, key) ==
  IF ~AwaitGoesOn(c, t, k) /\ t # 0
    THEN LatchAfter(latch, key, AwaitExitMode)
    ELSE latch

\* the iteration ends a round: the last character of the callsign matched
TrainRound(c, t, k1, k2) ==
  /\ ~AwaitGoesOn(c, t, k1)
  /\ ~AwaitReturns(t, k2)
  /\ RightChar(call, idx, c)
  /\ idx + 1 = CALLLEN

TrainPoll(key, ch) ==
  LET t1 == ttimer - 1
      k1 == CtrlKey(cklatch, key)
      l1 == AwaitLatchInLoop(ch, t1, cklatch, key)
      k2 == CtrlKey(l1, key)
  IN  /\ pc = "await"
      /\ loop' = "await"
      /\ keychk' = AwaitKeyCalls(ch, t1, k1)
      /\ keyhit' = key
      /\ cklatch' = AwaitLatchAtExit(ch, t1, l1, k1, key)
      /\ subc' = ch
      /\ rnd' = IF TrainRound(ch, t1, k1, k2) THEN LastOfCall(lfsr, lfsr, 0) ELSE rnd
      /\ UNCHANGED << lock, adj, err >>
      /\ UNCHANGED adjVars
      /\ UNCHANGED beaconVars
      /\ IF AwaitGoesOn(ch, t1, k1)
           THEN /\ ttimer' = t1
                /\ evt' = "wait"
                /\ quiet' = quiet + 1
                /\ StayInLoop
                /\ UNCHANGED << call, idx, pn, rounds, terrs, tdone, dirty, lfsr, stored >>
                /\ UNCHANGED playVars
           ELSE IF AwaitReturns(t1, k2)
             THEN /\ TrainerReturns(IF t1 = 0 THEN "timeout" ELSE "key")
                  /\ quiet' = IF t1 # 0 THEN 0 ELSE IF ch = NUL THEN quiet + 1 ELSE quiet
             ELSE IF RightChar(call, idx, ch)
               THEN IF idx + 1 = CALLLEN
                 THEN \* yackchar('R'); next round: rndcall(call); i = 0
                      /\ rounds < MaxRounds
                      /\ rounds' = rounds + 1
                      /\ call' = RndCall(lfsr)
                      /\ lfsr' = LfsrAfter(lfsr, CALLLEN)
                      /\ idx' = 0
                      /\ pn' = 0
                      /\ terrs' = 0
                      /\ tdone' = terrs
                      /\ ttimer' = 0
                      /\ pc' = "present"
                      /\ evt' = "complete"
                      /\ why' = "none"
                      /\ quiet' = 0
                      /\ UNCHANGED << inhibit, timer, polls, ack, save, stored, dirty, idle >>
                      /\ UNCHANGED cmdObs
                      /\ UNCHANGED playVars
                 ELSE /\ idx' = idx + 1
                      /\ ttimer' = YACKSECS(TRAINTIMEOUT)
                      /\ evt' = "match"
                      /\ quiet' = 0
                      /\ StayInLoop
                      /\ UNCHANGED << call, pn, rounds, terrs, tdone, dirty, lfsr, stored >>
                      /\ UNCHANGED playVars
               ELSE \* yackerror(); i = 0: the callsign is played again
                    /\ terrs < MaxErrs
                    /\ terrs' = terrs + 1
                    /\ idx' = 0
                    /\ pn' = 0
                    /\ ttimer' = 0
                    /\ pc' = "present"
                    /\ evt' = "wrong"
                    /\ why' = "none"
                    /\ quiet' = 0
                    /\ UNCHANGED << call, rounds, tdone, dirty, lfsr >>
                    /\ UNCHANGED << inhibit, timer, polls, ack, save, stored, idle >>
                    /\ UNCHANGED cmdObs
                    /\ UNCHANGED playVars

(***************************************************************************)
(* beacon(RECORD)                                                          *)
(***************************************************************************)
\* if (c>='0' && c<='9')
IsDigit(c) == c >= ch0 /\ c <= ch9

\* interval *= 10; interval += c - '0'   (16 bit)
Accumulate(iv, c) == (((iv * 10) % WORD) + (c - ch0)) % WORD

\* if (interval >= 0 && interval <= 9999)
InRange(iv) == iv >= 0 /\ iv <= MAXINTERVAL

\* mutant: every decoded character rearms the timer
CaptureTimerAnyChar(c, t) == IF c # NUL THEN YACKSECS(DEFTIMEOUT) ELSE t

\* timer after the body of the capture loop
CaptureTimer(c, t) == IF IsDigit(c) THEN YACKSECS(DEFTIMEOUT) ELSE t

\* while(--timer) { c=yackiambic(FALSE); yackbeat(); ... }; the control key
\* is not read by this loop: a press during the iteration changes nothing
BeaconRecord(key, ch) ==
  LET t1 == (btimer + WORD - 1) % WORD
  IN  /\ pc = "brec"
      /\ loop' = "brec"
      /\ keychk' = 0
      /\ keyhit' = key
      /\ prior' = prior
      /\ cklatch' = cklatch
      /\ UNCHANGED << lock, adj, rnd >>
      /\ UNCHANGED trainVars
      /\ UNCHANGED adjVars
      /\ IF t1 # 0
           THEN /\ IsDigit(ch) => Len(digits) < MaxDigits
                /\ digits' = IF IsDigit(ch) THEN Append(digits, ch) ELSE digits
                /\ silent' = IF ch = NUL THEN silent + 1 ELSE 0
                /\ interval' = IF IsDigit(ch) THEN Accumulate(interval, ch) ELSE interval
                /\ btimer' = CaptureTimer(ch, t1)
                /\ quiet' = IF IsDigit(ch) THEN 0 ELSE quiet + 1
                /\ subc' = ch
                /\ evt' = IF ch = NUL THEN "wait" ELSE IF IsDigit(ch) THEN "digit" ELSE "other"
                /\ pc' = pc
                /\ why' = "none"
                /\ UNCHANGED << inhibit, timer, polls, ack, err, save, idle >>
                /\ UNCHANGED cmdObs
                /\ UNCHANGED << dirty, lfsr, stored >>
                /\ UNCHANGED playVars
           ELSE /\ btimer' = 0
                /\ interval' = interval
                /\ digits' = digits
                /\ silent' = silent
                /\ stored' = IF InRange(interval) THEN interval ELSE stored
                /\ err' = IF InRange(interval) THEN 0 ELSE 1
                /\ pc' = "cmd"
                /\ evt' = IF InRange(interval) THEN "stored" ELSE "rejected"
                /\ why' = "timeout"
                /\ dirty' = FALSE
                /\ save' = 1
                /\ ack' = 1
                /\ quiet' = quiet
                /\ subc' = NUL
                /\ calls' = TailCalls(ReturnOutcome(lastc, lockAt))
                /\ UNCHANGED << inhibit, timer, lfsr, polls, idle >>
                /\ UNCHANGED << lastc, lockAt, act, armed >>
                /\ UNCHANGED playVars

(***************************************************************************)
(* Specifications: the program under different operators                   *)
(***************************************************************************)
\* the operator keys any command; inside the sub-functions the paddles rest
Init == Boot(BOOLEAN, {0})

Main == \E key \in BOOLEAN : MainLoop(key)

Command ==
  \/ \E ch \in CommandChars \cup {NUL} : CmdPoll(FALSE, ch)
  \/ CmdPoll(TRUE, NUL)

PitchIdle == \E key \in BOOLEAN : PitchCycle(key, FALSE, FALSE)

FarnsIdle == \E key \in BOOLEAN : FarnsCycle(key, FALSE, FALSE)

Present == \E key \in BOOLEAN : TrainPresent(key)

AwaitIdle == \E key \in BOOLEAN : TrainPoll(key, NUL)

RecordIdle == \E key \in BOOLEAN : BeaconRecord(key, NUL)

Next ==
  \/ Main
  \/ Command
  \/ PitchIdle
  \/ FarnsIdle
  \/ Present
  \/ AwaitIdle
  \/ RecordIdle

Spec == Init /\ [][Next]_vars

\* the operator starts the callsign trainer and answers on the paddle
TrainCommand ==
  \/ \E ch \in { NUL, chC } : CmdPoll(FALSE, ch)
  \/ CmdPoll(TRUE, NUL)

\* the decoder delivers nothing, a character of the callsign or another one
AnswerChars == { NUL, chQuery } \cup { call[k] : k \in 1..CALLLEN }

Await == \E key \in BOOLEAN, ch \in AnswerChars : TrainPoll(key, ch)

InitTrain == Boot({FALSE}, {0})

NextTrain ==
  \/ Main
  \/ TrainCommand
  \/ Present
  \/ Await

SpecTrain == InitTrain /\ [][NextTrain]_vars

\* the operator keys 'N' as the first command, then digits and other
\* characters, and leaves command mode with the control key
RecordCommand ==
  \/ polls = 0 /\ CmdPoll(FALSE, chN)
  \/ CmdPoll(TRUE, NUL)

KeyedChars == { NUL, ch0, ch7, chQuery }

RecordKeyed ==
  \/ \E ch \in KeyedChars : BeaconRecord(FALSE, ch)
  \/ BeaconRecord(TRUE, NUL)

InitRecord == Boot({FALSE}, {0})

NextRecord ==
  \/ Main
  \/ RecordCommand
  \/ RecordKeyed

SpecRecord == InitRecord /\ [][NextRecord]_vars

\* the beacon runs on an interval found in storage; the operator visits
\* command mode but keys nothing
PlayCommand ==
  \/ CmdPoll(FALSE, NUL)
  \/ CmdPoll(TRUE, NUL)

InitPlay == Boot({FALSE}, 0..MaxStored)

NextPlay ==
  \/ Main
  \/ PlayCommand

SpecPlay == InitPlay /\ [][NextPlay]_vars

\* the operator changes the configuration and works the paddles in the
\* adjustment loops
AdjustChars ==
  { NUL, chP, chZ, chR, chA, chB, chL, chD, chX, chS, chK, chF, ch0 }

AdjustCommand ==
  \/ \E ch \in AdjustChars : CmdPoll(FALSE, ch)
  \/ CmdPoll(TRUE, NUL)

PitchKeyed == \E key, dit, dah \in BOOLEAN : PitchCycle(key, dit, dah)

FarnsKeyed == \E key, dit, dah \in BOOLEAN : FarnsCycle(key, dit, dah)

InitAdjust == Boot(BOOLEAN, {0})

NextAdjust ==
  \/ Main
  \/ AdjustCommand
  \/ PitchKeyed
  \/ FarnsKeyed

SpecAdjust == InitAdjust /\ [][NextAdjust]_vars

\* the operator gives commands during the first polls of a program run,
\* may press the control key, touch the paddles and key characters inside
\* the sub-functions, and may stop doing so at any time; the processor
\* never stops running the loop it is in
LiveChars == { chP, chZ, chC, chN, chE }

LiveMain ==
  \/ MainLoop(FALSE)
  \/ polls < PollSlack /\ MainLoop(TRUE)

LiveCommand ==
  \/ polls < PollSlack /\ \E ch \in LiveChars : CmdPoll(FALSE, ch)
  \/ CmdPoll(FALSE, NUL)
  \/ CmdPoll(TRUE, NUL)

AwaitLive == \E key \in BOOLEAN, ch \in { NUL, chQuery } : TrainPoll(key, ch)

RecordLive == \E key \in BOOLEAN, ch \in { NUL, chQuery } : BeaconRecord(key, ch)

InitLive == Boot({FALSE}, {0})

NextLive ==
  \/ LiveMain
  \/ LiveCommand
  \/ PitchKeyed
  \/ FarnsKeyed
  \/ Present
  \/ AwaitLive
  \/ RecordLive

\* the iteration of the loop in control that the processor runs when the
\* operator does nothing; it is possible in every state and the processor
\* never stops, so it is taken again and again unless iterations with
\* input are taken instead
QuietStep ==
  \/ MainLoop(FALSE)
  \/ CmdPoll(FALSE, NUL)
  \/ PitchCycle(FALSE, FALSE, FALSE)
  \/ FarnsCycle(FALSE, FALSE, FALSE)
  \/ TrainPresent(FALSE)
  \/ TrainPoll(FALSE, NUL)
  \/ BeaconRecord(FALSE, NUL)

SpecLive == InitLive /\ [][NextLive]_vars /\ WF_vars(QuietStep)

\* lfsr() and rndcall() on their own: the register starts in any 16 bit
\* state; lfsr is called with the bound of the command loop from every
\* state, and with every bound from the states that between them leave
\* every value in the high byte; rndcall is called from every state
RegStates == 0..(WORD - 1)

\* the states with a low byte of 0 or 1: one step leaves every value in
\* the high byte
HighByteState(s) == s % 256 < 2

\* the program state outside the generator
restVars ==
  << pc, inhibit, timer, lock, dirty, adj, polls, idx, pn, ttimer, rounds,
     terrs, tdone, ptimer, ftimer, adjn, interval, btimer, stored, digits,
     silent, prior, ticks, loaded, expiries, bplay, firedAt, firedFor, evt,
     why, lastc, lockAt, act, ack, err, save, idle, quiet, subc, armed,
     calls, keychk, keyhit, cklatch, fires >>

\* word lfsr(byte n)
LfsrCall(n) ==
  /\ loop = "boot"
  /\ loop' = "lfsr"
  /\ lfsr' = LfsrStep(lfsr)
  /\ rnd' = Drawn(lfsr, n)
  /\ UNCHANGED call
  /\ UNCHANGED restVars

\* void rndcall(char* call)
RndCallFills ==
  /\ loop = "boot"
  /\ loop' = "rndcall"
  /\ \E st \in { LfsrRun(lfsr, CALLLEN) } :
       /\ call' = CallOf(st)
       /\ lfsr' = st[CALLLEN]
       /\ rnd' = LastOfRun(st, lfsr, 0)
  /\ UNCHANGED restVars

LfsrAnyState == LfsrCall(SEEDBOUND)

LfsrAnyBound == HighByteState(lfsr) /\ \E n \in MINN..MAXN : LfsrCall(n)

InitRandom == BootFrom({FALSE}, {0}, RegStates)

NextRandom ==
  \/ LfsrAnyState
  \/ LfsrAnyBound
  \/ RndCallFills

SpecRandom == InitRandom /\ [][NextRandom]_vars

(***************************************************************************)
(* Properties of the command dispatcher                                    *)
(***************************************************************************)
\* the last step ran the body of the command loop
Polled == loop = "cmd" /\ evt \in { "poll", "call" }

\* c is in none of the tables consulted when the lock flag reads lk
Unmatched(c, lk) ==
  c # NUL /\ c \notin AnytimeChars /\ (lk \/ c \notin LockableChars)

\* C1, as stated: with CONFLOCK set, an iteration that decodes a
\* lock-sensitive character sounds neither txok nor yackerror.
C1_LockedCharSilent ==
  (Polled /\ lockAt /\ lastc \in LockableChars) => (ack = 0 /\ err = 0)

\* C1, amended: with CONFLOCK set, an iteration that decodes a
\* lock-sensitive character executes no command, saves nothing, sounds no
\* txok and leaves the flag set, and it sounds yackerror once.
C1_LockedCharRejected ==
  (Polled /\ lockAt /\ lastc \in LockableChars) =>
    /\ evt = "poll"
    /\ pc = "cmd"
    /\ act = "none"
    /\ lock
    /\ ack = 0
    /\ save = 0
    /\ err = 1

C1_Witness ==
  Polled /\ lockAt /\ lastc = chA /\ err = 1 /\ ack = 0

\* C2: while CONFLOCK is set no iteration executes a lock-sensitive
\* command; every always-available character executes its own command in
\* both lock states; and '0' decoded under a set lock clears the lock.
C2_TwoTierPermission ==
  /\ lockAt => act \notin LockableActions
  /\ (Polled /\ lastc \in AnytimeChars) => act = ActionName(lastc)
  /\ (Polled /\ lockAt /\ lastc = ch0) => ~lock

C2_Witness ==
  Polled /\ lockAt /\ lastc = ch0 /\ act = "CONFLOCK" /\ ~lock /\ polls > 1

\* C4, as stated: a timeout exit follows exactly YACKSECS(DEFTIMEOUT)
\* consecutive empty polls, and every decoded character rearms the exit
\* timer to YACKSECS(DEFTIMEOUT).
C4_AlwaysFullTimeout ==
  /\ (evt = "signoff" /\ why = "timeout") => idle = YACKSECS(DEFTIMEOUT)
  /\ (Polled /\ lastc # NUL) => timer = YACKSECS(DEFTIMEOUT)

\* C4, amended: a decoded character arms the exit timer to
\* YACKSECS(MACTIMEOUT) when it is a playback character (E, I, T, M) and
\* to YACKSECS(DEFTIMEOUT) otherwise; the loop counts every empty poll
\* down from the armed value and leaves by timeout exactly when that many
\* consecutive empty polls have passed.
C4_IdleTimeout ==
  /\ (Polled /\ lastc # NUL) =>
       /\ timer = (IF lastc \in PlaybackChars THEN YACKSECS(MACTIMEOUT)
                                                ELSE YACKSECS(DEFTIMEOUT))
       /\ armed = timer
       /\ idle = 0
  /\ (evt = "enter") => (timer = YACKSECS(DEFTIMEOUT) /\ armed = timer /\ idle = 0)
  /\ (pc = "cmd") => (idle + timer = armed /\ timer >= 0)
  /\ (evt = "signoff" /\ why = "timeout") => (idle = armed /\ armed > 0)

C4_Witness ==
  /\ evt = "signoff"
  /\ why = "timeout"
  /\ idle = YACKSECS(DEFTIMEOUT)
  /\ polls > YACKSECS(DEFTIMEOUT)

\* C5: an iteration that decodes a character matching no consulted table
\* sounds yackerror once, with no command, no save and no txok; an
\* iteration that decodes nothing sounds and saves nothing.
C5_UnmatchedIsError ==
  /\ (Polled /\ Unmatched(lastc, lockAt)) =>
       /\ evt = "poll"
       /\ err = 1
       /\ ack = 0
       /\ save = 0
       /\ act = "none"
       /\ lock = lockAt
  /\ (Polled /\ lastc = NUL) =>
       /\ evt = "poll"
       /\ err = 0
       /\ ack = 0
       /\ save = 0
       /\ act = "none"

C5_Witness ==
  Polled /\ ~lockAt /\ lastc = chQ /\ err = 1 /\ ack = 0 /\ save = 0

(***************************************************************************)
(* Properties of the callsign trainer                                      *)
(***************************************************************************)
\* the step runs an iteration of the await loop and cstrain goes on
AwaitStep == pc = "await" /\ pc' \in { "await", "present" }

\* C6: a compared character that equals call[i] advances i by one (the
\* fifth match plays 'R' and synthesizes the next callsign), any other
\* compared character sounds yackerror once and resets i with the callsign
\* unchanged and played again; nothing else moves i or the callsign; a
\* callsign is synthesized only on entry and after the fifth match.
C6_RoundProgress ==
  [][ /\ (AwaitStep /\ subc' # NUL /\ subc' = call[idx + 1]) =>
           /\ IF idx + 1 = CALLLEN
                THEN /\ evt' = "complete"
                     /\ rounds' = rounds + 1
                     /\ call' = RndCall(lfsr)
                     /\ idx' = 0
                     /\ tdone' = terrs
                     /\ terrs' = 0
                ELSE /\ idx' = idx + 1
                     /\ terrs' = terrs
                     /\ call' = call
                     /\ rounds' = rounds
                     /\ pc' = "await"
      /\ (AwaitStep /\ subc' # NUL /\ subc' # call[idx + 1]) =>
           /\ evt' = "wrong"
           /\ terrs' = terrs + 1
           /\ idx' = 0
           /\ call' = call
           /\ rounds' = rounds
           /\ pc' = "present"
           /\ pn' = 0
      /\ (AwaitStep /\ subc' = NUL) =>
           (idx' = idx /\ call' = call /\ terrs' = terrs /\ rounds' = rounds)
      /\ (pc = "present" /\ pc' # "cmd") =>
           (idx' = idx /\ call' = call /\ terrs' = terrs /\ rounds' = rounds)
      /\ (rounds' # rounds) =>
           \/ pc = "cmd" /\ pc' = "present" /\ lastc' = chC
           \/ pc = "await" /\ idx + 1 = CALLLEN /\ subc' = call[CALLLEN]
    ]_vars

\* one wrong character, then the five right ones: one yackerror, round done
C6_Witness == evt = "complete" /\ tdone = 1 /\ pc = "present" /\ rounds = 2

\* cstrain returned in the last step
TrainerLeft == evt = "return" /\ loop \in { "present", "await" }

\* C7, as stated: cstrain returns only on a control-key press or after
\* YACKSECS(TRAINTIMEOUT) consecutive polls without a decoded character,
\* and every character decoded is compared with the callsign unless the
\* control key ended the session.
C7_TimeoutNeedsSilence ==
  /\ TrainerLeft =>
       \/ why = "key"
       \/ why = "timeout" /\ subc = NUL /\ quiet = YACKSECS(TRAINTIMEOUT)
  /\ (loop = "await" /\ subc # NUL /\ ~keyhit) =>
       evt \in { "match", "complete", "wrong" }

\* C7, amended: cstrain returns only on a detected control-key press or
\* when its timer reaches zero, which is on the YACKSECS(TRAINTIMEOUT)-th
\* poll since the timer was armed, the polls before it having decoded
\* nothing; a character decoded on that last poll is dropped; a character
\* decoded on an earlier poll is compared unless the control key is found
\* pressed in that poll; completing a callsign does not end the session.
C7_SessionExit ==
  /\ TrainerLeft =>
       \/ why = "key" /\ keyhit
       \/ /\ why = "timeout"
          /\ loop = "await"
          /\ \/ subc = NUL /\ quiet = YACKSECS(TRAINTIMEOUT)
             \/ subc # NUL /\ quiet = YACKSECS(TRAINTIMEOUT) - 1
  /\ (pc = "await") => (ttimer > 0 /\ quiet + ttimer = YACKSECS(TRAINTIMEOUT))
  /\ (loop = "await" /\ subc # NUL /\ ~TrainerLeft) =>
       (evt \in { "match", "complete", "wrong" } /\ ~keyhit)
  /\ (loop = "await" /\ evt \in { "match", "complete", "wrong" }) => subc # NUL
  /\ (loop = "await" /\ subc # NUL /\ TrainerLeft) => (keyhit \/ why = "timeout")
  /\ (evt = "complete") => pc = "present"

\* the last poll of the countdown decodes a character and the session ends
C7_Witness ==
  /\ TrainerLeft
  /\ why = "timeout"
  /\ subc # NUL
  /\ ~keyhit
  /\ quiet = YACKSECS(TRAINTIMEOUT) - 1

(***************************************************************************)
(* Properties of the beacon                                                *)
(***************************************************************************)
\* the number the operator keyed, read as a decimal numeral
RECURSIVE DecimalValue(_)
DecimalValue(ds) ==
  IF ds = << >> THEN 0
  ELSE 10 * DecimalValue(SubSeq(ds, 1, Len(ds) - 1)) + (ds[Len(ds)] - ch0)

\* beacon(RECORD) left its capture loop in the last step
CaptureOver == loop = "brec" /\ evt \in { "stored", "rejected" }

\* C3: when the capture is over the interval is written, and then with the
\* decimal value of the keyed digits, exactly if that value is at most
\* 9999; any larger value sounds yackerror and writes nothing.
C3_PersistsIffInRange ==
  CaptureOver =>
    /\ (evt = "stored") <=> (DecimalValue(digits) <= MAXINTERVAL)
    /\ (evt = "stored") => (stored = DecimalValue(digits))
    /\ (evt = "rejected") => (err = 1)

\* C8, as stated: every decoded character rearms the capture timer, and
\* the capture is over only after a whole countdown without any character.
C8_AnyCharRearms ==
  /\ (loop = "brec" /\ pc = "brec" /\ subc # NUL) =>
       btimer = YACKSECS(DEFTIMEOUT)
  /\ CaptureOver => silent >= YACKSECS(DEFTIMEOUT) - 1

\* C8, amended: a decoded digit rearms the capture timer to
\* YACKSECS(DEFTIMEOUT) and no other character does: the timer is
\* YACKSECS(DEFTIMEOUT) less the loop bodies run since the last digit, and
\* the capture is over when YACKSECS(DEFTIMEOUT) - 1 bodies in a row have
\* decoded no digit, whatever else they decoded.
C8_DigitRearms ==
  /\ (loop = "brec" /\ evt = "digit") =>
       (btimer = YACKSECS(DEFTIMEOUT) /\ quiet = 0 /\ IsDigit(subc))
  /\ (loop = "brec" /\ evt = "other") =>
       (btimer < YACKSECS(DEFTIMEOUT) /\ quiet > 0 /\ silent = 0)
  /\ (pc = "brec") =>
       (btimer > 0 /\ btimer + quiet = YACKSECS(DEFTIMEOUT))
  /\ CaptureOver =>
       (quiet = YACKSECS(DEFTIMEOUT) - 1 /\ silent <= quiet)

\* the capture is over although a character was decoded in its last bodies
C8_Witness ==
  /\ CaptureOver
  /\ quiet = YACKSECS(DEFTIMEOUT) - 1
  /\ silent < quiet
  /\ Len(digits) > 0

\* C9: with an interval n in 1..9999 read from storage, every expiry of the
\* one-second counter takes one off the interval, the message is played at
\* the n-th expiry and at no other, and the interval is read again from
\* storage in that invocation; with an interval of 0 an invocation of
\* beacon(PLAY) plays nothing and leaves interval and timer as they are.
C9_Countdown ==
  /\ [] /\ (loaded \in 1..MAXINTERVAL) =>
             (expiries < loaded /\ interval = loaded - expiries)
        /\ (bplay /\ firedFor \in 1..MAXINTERVAL) =>
             /\ firedAt = firedFor
             /\ interval = stored
             /\ loaded = stored
             /\ expiries = 0
        /\ (loaded = 0) => (interval = 0 /\ ~bplay /\ expiries = 0)
  /\ [][ LET n == IF interval = UNLOADED THEN stored ELSE loaded
             e == IF interval = UNLOADED THEN 0 ELSE expiries
         IN  /\ (LazyLoad(interval, stored) = 0 /\ pc' = "main") =>
                  (interval' = 0 /\ btimer' = btimer /\ ~bplay')
             /\ (pc' = "main" /\ n \in 1..MAXINTERVAL) =>
                  IF SecondExpired(btimer)
                    THEN /\ btimer' = YACKSECS(1)
                         /\ bplay' <=> (e + 1 = n)
                         /\ ~bplay' => (expiries' = e + 1 /\ interval' = n - e - 1)
                    ELSE /\ btimer' = btimer - 1
                         /\ ~bplay'
                         /\ expiries' = e
                         /\ interval' = n - e
       ]_vars

\* the message is played a second time, at the third expiry after the reload
C9_Witness ==
  /\ bplay
  /\ firedFor = 3
  /\ firedAt = 3
  /\ interval = 3
  /\ ticks > 2 * YACKSECS(1) + 1 + 3

(***************************************************************************)
(* Properties of the polling loops                                         *)
(***************************************************************************)
\* the iteration that ran in the last step ended its loop
LoopLeft == evt \in { "signoff", "return", "stored", "rejected" }

CoreLoops == { "cmd", "present", "await", "brec", "pitch", "farns" }

KeyReturn ==
  /\ evt = "return"
  /\ why = "key"
  /\ loop \in { "present", "await", "pitch", "farns" }

\* C11: when the trainer, pitch() or setfarns() returns on a control-key
\* press, the press is consumed (the latch is clear), commandmode is still
\* in its loop with keying inhibited and its timer running, and unless the
\* key is pressed again the next iteration of the command loop decodes.
C11_ReturnsToCommand ==
  /\ [] /\ ~cklatch
        /\ KeyReturn =>
             (pc = "cmd" /\ inhibit /\ timer = YACKSECS(DEFTIMEOUT))
  /\ [][ (KeyReturn /\ ~keyhit') =>
           (loop' = "cmd" /\ evt' \in { "poll", "call" } /\ polls' = polls + 1)
       ]_vars

\* pitch() returned on a press and the command loop waits for a character
C11_Witness ==
  /\ KeyReturn
  /\ loop = "pitch"
  /\ keyhit
  /\ pc = "cmd"
  /\ timer = YACKSECS(DEFTIMEOUT)

(***************************************************************************)
(* Properties of saving                                                    *)
(***************************************************************************)
\* the configuration calls that change what yacksave persists
MutatingActions ==
  { "yackreset", "IAMBICA", "IAMBICB", "ULTIMATIC", "DAHPRIO", "PDLSWAP",
    "SIDETONE", "TXKEY", "TXINV", "CONFLOCK" }

\* the position of a call in the log of the last step (0: not made)
CallAt(name) ==
  IF \E k \in 1..Len(calls) : calls[k] = name
    THEN CHOOSE k \in 1..Len(calls) : calls[k] = name
    ELSE 0

\* pitch() or setfarns() returned in the last step
AdjustReturn == evt = "return" /\ loop \in { "pitch", "farns" }

\* C12: whenever the command loop is about to decode or commandmode has
\* returned, no configuration change is unsaved; an iteration that makes a
\* configuration call makes it first, then yacksave, then the txok tone;
\* the return of an adjustment loop, by timeout or by the control key, is
\* followed by yacksave and then txok; a save is logged after, never
\* before, the change of its iteration.
C12_SaveFollowsMutation ==
  /\ (pc \in { "cmd", "main" }) => ~dirty
  /\ (Polled /\ act \in MutatingActions) =>
       (calls = << act >> \o AckCalls /\ save = 1 /\ ack = 1)
  /\ AdjustReturn => (calls = AckCalls /\ save = 1 /\ ack = 1)
  /\ (CallAt("yacksave") > 0) =>
       /\ CallAt("yacksave") < CallAt("txok")
       /\ (act \in MutatingActions /\ Polled) => CallAt(act) < CallAt("yacksave")
  /\ (save = 1) <=> (CallAt("yacksave") > 0)
  /\ dirty => (pc \in { "pitch", "farns" } /\ adjn > 0)

\* pitch() was left through the control key after an adjustment, and saved
C12_Witness ==
  /\ AdjustReturn
  /\ loop = "pitch"
  /\ why = "key"
  /\ adjn > 0
  /\ save = 1
  /\ calls = AckCalls
  /\ ~dirty

(***************************************************************************)
(* Properties of a rejected beacon recording                               *)
(***************************************************************************)
\* C13: when beacon(RECORD) ends with yackerror, the persisted interval and
\* the interval in memory are what they were when the recording began.
C13_RejectedLeavesState ==
  (loop = "brec" /\ evt = "rejected") =>
    (stored = prior[1] /\ interval = prior[2])

(***************************************************************************)
(* Properties of the adjustment loops                                      *)
(***************************************************************************)
\* C14: pitch() and setfarns() return by themselves exactly when 10 cycles
\* in a row saw no paddle contact, counted from entry or from the last
\* cycle with a contact; a cycle that finds the control key pressed
\* returns without a yackpitch or yackspeed call; the calls made before
\* stay made.
C14_AdjustLoopEnds ==
  /\ [] /\ (AdjustReturn /\ why = "timeout" /\ loop = "pitch") =>
             quiet = PITCHREPEAT
        /\ (AdjustReturn /\ why = "timeout" /\ loop = "farns") =>
             quiet = FARNSREPEAT
        /\ (pc = "pitch") => (ptimer > 0 /\ ptimer + quiet = PITCHREPEAT)
        /\ (pc = "farns") => (ftimer < FARNSREPEAT /\ ftimer = quiet)
        /\ (loop \in { "pitch", "farns" } /\ evt = "cycle" /\ adj # "none") =>
             quiet = 0
        /\ (AdjustReturn /\ why = "key") => (keyhit /\ adj = "none")
        /\ (AdjustReturn /\ why = "timeout") => (~keyhit /\ adj = "none")
  /\ [][ /\ (pc \in { "pitch", "farns" } /\ keyhit') =>
              (pc' = "cmd" /\ why' = "key" /\ adjn' = adjn /\ adj' = "none")
         /\ (pc \in { "pitch", "farns" }) => adjn' >= adjn
         /\ (pc \in { "pitch", "farns" } /\ adj' # "none") => adjn' > adjn
       ]_vars

\* after a contact, ten quiet cycles end pitch()
C14_Witness ==
  /\ AdjustReturn
  /\ loop = "pitch"
  /\ why = "timeout"
  /\ quiet = PITCHREPEAT
  /\ adjn > 0

(***************************************************************************)
(* Termination of the loops                                                *)
(***************************************************************************)
\* the last step took no input from the operator
NoInput ==
  /\ ~keyhit
  /\ (loop = "cmd") => lastc = NUL
  /\ (loop \in { "await", "brec" }) => subc = NUL
  /\ (loop \in { "pitch", "farns" }) => adj = "none"

SubLoops == { "present", "await", "brec", "pitch", "farns" }

\* C15: if from some point on the operator gives no input, then every run
\* of the trainer, of beacon(RECORD), of pitch() and of setfarns() returns
\* to the command loop, commandmode, whenever it is active, sounds the
\* sign-off and returns to main() with keying restored, and the program
\* stays in the loop of main(); a step without input that stays in a loop
\* moves the counter of that loop towards its end.
C15_EveryLoopReturns ==
  /\ (<>[]NoInput) =>
       /\ [](pc \in SubLoops => <>(pc = "cmd"))
       /\ [](pc # "main" => <>(evt = "signoff" /\ pc = "main" /\ ~inhibit))
       /\ <>[](pc = "main")
  /\ [][ (NoInput' /\ pc' = pc) =>
           /\ (pc = "cmd") => (timer' >= 0 /\ timer' < timer)
           /\ (pc = "present") => (pn' > pn /\ pn' < CALLLEN)
           /\ (pc = "await") => (ttimer' > 0 /\ ttimer' < ttimer)
           /\ (pc = "brec") => (btimer' > 0 /\ btimer' < btimer)
           /\ (pc = "pitch") => (ptimer' > 0 /\ ptimer' < ptimer)
           /\ (pc = "farns") => (ftimer' < FARNSREPEAT /\ ftimer' > ftimer)
       ]_vars

\* commandmode signs off by timeout after pitch() has run and returned
C15_Witness ==
  /\ evt = "signoff"
  /\ why = "timeout"
  /\ idle = YACKSECS(DEFTIMEOUT)
  /\ adjn > 0
  /\ pc = "main"


(***************************************************************************)
(* Properties of the random generator                                      *)
(***************************************************************************)
\* the high byte of register state s
HighByte(s) == s \div 256

\* C16: for every 16 bit register state and every bound n in 2..255,
\* lfsr(n) moves the register by one Galois step, (state >> 1) XOR 0xB400
\* when the low bit was set and state >> 1 otherwise, and returns a value
\* in 0..n-1 that is the high byte of the new state reduced modulo n.
C16_LfsrRange ==
  (loop = "lfsr") =>
    /\ rnd.s \in RegStates
    /\ rnd.n \in MINN..MAXN
    /\ rnd.k = 1
    /\ lfsr \in RegStates
    /\ lfsr = IF rnd.s % 2 = 1
                THEN BitXor(rnd.s \div 2, LFSRTAPS)
                ELSE rnd.s \div 2
    /\ rnd.v \in 0..(rnd.n - 1)
    /\ rnd.v = HighByte(lfsr) % rnd.n

\* the low bit was set, and the bound had to be subtracted more than once
C16_Witness ==
  /\ loop = "lfsr"
  /\ rnd.s % 2 = 1
  /\ rnd.n = 26
  /\ HighByte(lfsr) >= 2 * rnd.n
  /\ rnd.v = HighByte(lfsr) % rnd.n

\* the k-th register state after s, step by step
Stepped(s) ==
  LET a == LfsrShift(s)
      b == LfsrShift(a)
      c == LfsrShift(b)
      d == LfsrShift(c)
      e == LfsrShift(d)
  IN  << a, b, c, d, e >>

\* C17: for every generator state, rndcall fills the five elements of the
\* buffer so that positions 0, 1, 3 and 4 hold letters 'A'..'Z' and
\* position 2 holds a digit '0'..'9', each made from the next register
\* state, and the register has moved by exactly five steps.
C17_CallsignShape ==
  (loop = "rndcall") =>
    \E st \in { Stepped(rnd.s0) } :
      /\ DOMAIN call = 1..5
      /\ \A i \in { 0, 1, 3, 4 } :
           /\ call[i + 1] \in chA..chZ
           /\ call[i + 1] = chA + (HighByte(st[i + 1]) % 26)
      /\ call[3] \in ch0..ch9
      /\ call[3] = ch0 + (HighByte(st[3]) % 10)
      /\ rnd.k = 5
      /\ lfsr = st[5]

\* a callsign made with the taps applied in the first step
C17_Witness ==
  /\ loop = "rndcall"
  /\ rnd.s0 % 2 = 1
  /\ call[3] \in ch0..ch9
  /\ call[1] \in chA..chZ
  /\ lfsr = Stepped(rnd.s0)[5]

(***************************************************************************)
(* Properties of macro playback                                            *)
(***************************************************************************)
\* the message slot a playback character stands for
SlotOf(c) ==
  CASE c = chE -> "play1"
    [] c = chI -> "play2"
    [] c = chT -> "play3"
    [] c = chM -> "play4"
    [] OTHER -> "none"

\* the command loop has just handled the decoded character c
Handled(c) == loop = "cmd" /\ evt = "poll" /\ lastc = c

\* C18: in commandmode a decoded E, I, T or M plays message 1, 2, 3 or 4
\* and, in that iteration, sounds no acknowledgement and no error, saves
\* nothing, and leaves the exit timer at YACKSECS(MACTIMEOUT), not at
\* YACKSECS(DEFTIMEOUT), whether the configuration is locked or not.
C18_PlaybackSilent ==
  \A c \in PlaybackChars :
    Handled(c) =>
      /\ act = SlotOf(c)
      /\ ack = 0
      /\ err = 0
      /\ save = 0
      /\ \A i \in 1..Len(calls) :
           calls[i] \notin { "yacksave", "yackdelay", "txok", "yackerror" }
      /\ \E i \in 1..Len(calls) : calls[i] = SlotOf(c)
      /\ timer = YACKSECS(MACTIMEOUT)
      /\ timer # YACKSECS(DEFTIMEOUT)
      /\ armed = YACKSECS(MACTIMEOUT)
      /\ pc = "cmd"

\* message 3 was played with the configuration locked
C18_Witness ==
  /\ Handled(chT)
  /\ lockAt
  /\ act = "play3"
  /\ timer = YACKSECS(MACTIMEOUT)

(***************************************************************************)
(* Properties of the keying inhibit                                        *)
(***************************************************************************)
\* the calls that are meant to key the transmitter: yacktune, yackmessage(PLAY)
KeyedCalls == { ActionName(m) : m \in KeyingChars }

InhibitCalls == { "inhibit(ON)", "inhibit(OFF)" }

\* the inhibit state in which the i-th call of cs runs, from state inh
InhibitAt(cs, i, inh) == InhibitAfter(SubSeq(cs, 1, i - 1), inh)

\* C19: from the entry to commandmode until its exit keying is inhibited
\* wherever a character is decoded, a configuration command or a sub-loop
\* runs, or the greeting, an acknowledgement, an error or the sign-off is
\* sounded; it is enabled only while yacktune or yackmessage(PLAY) runs and
\* inhibited again before the next decode; on the exit by timeout and on
\* the exit by the control key it is enabled again after the sign-off.
C19_KeyingInhibited ==
  /\ [] /\ (pc # "main") => inhibit
        /\ (pc = "main") => ~inhibit
        /\ (evt = "signoff") =>
             /\ why \in { "timeout", "key" }
             /\ calls = << "prgx", "inhibit(OFF)" >>
        /\ (evt = "enter") => (Len(calls) > 0 /\ calls[1] = "inhibit(ON)")
  /\ [][ (pc \notin SubLoops \/ pc' = "cmd") =>
           \A i \in 1..Len(calls') :
             \/ calls'[i] \in InhibitCalls
             \/ calls'[i] \in KeyedCalls /\ ~InhibitAt(calls', i, inhibit)
             \/ calls'[i] \notin KeyedCalls /\ InhibitAt(calls', i, inhibit)
       ]_vars

\* a message was played from commandmode and keying is inhibited again
C19_Witness ==
  /\ Handled(chE)
  /\ calls = << "inhibit(OFF)", "play1", "inhibit(ON)" >>
  /\ inhibit
  /\ pc = "cmd"


(***************************************************************************)
(* Properties of the beacon period                                         *)
(***************************************************************************)
\* the beacon(PLAY) invocations from one playback to the next
Periods == { fires[i + 1] - fires[i] : i \in 1..(Len(fires) - 1) }

\* C20: with a persisted interval n in 1..9999 that is left unchanged, the
\* number of beacon(PLAY) invocations between two consecutive playbacks of
\* the message is exactly n * YACKSECS(1).
C20_PeriodInTicks ==
  (stored \in 1..MAXINTERVAL) =>
    \A p \in Periods : p = stored * YACKSECS(1)

====
